---- MODULE Spec2Model ----
(***************************************************************************)
(* A model of proteotyping_db.py: the gi->taxid lookup store               *)
(* (Taxdump_DB_wrapper), the header resolver with its network fallback,    *)
(* the header/taxid mapping file, the taxonomy-store schema extension      *)
(* (NCBITaxa_mod) and the GFF parser.                                      *)
(***************************************************************************)
EXTENDS Integers, Sequences, FiniteSets, TLC

VARIABLES
  \* ---- Taxdump_DB_wrapper and its build ----
  files,           \* the file system: store path -> [exists, rows], rows committed
  files0,          \* the file system as it was when the constructor was called
  sqlite3db_file,  \* constructor argument ("None" stands for Python's None)
  gi_taxid_dmp,    \* constructor argument: [kind, lines]
  rows_per_chunk,  \* constructor argument
  pc,              \* "start", "loading", "open", "failed"
  pending,         \* rows inserted in the connection's open transaction
  pos,             \* dump lines consumed by gi_taxid_generator
  chunksDone,      \* executemany calls that completed
  builds,          \* calls of create_gi_taxid_db
  commits,         \* calls of con.commit()
  err,             \* the exception that ended the constructor ("" if none)
  ret,             \* result of the last __getitem__ / __len__ call
  \* ---- NCBITaxa_mod: the taxonomy store and its extension ----
  db,              \* table name -> [exists, rows], as the connection sees it
  cache,           \* lru_cache of find_refseq_header, least recently used first
  lastOp,          \* the last NCBITaxa_mod method called
  lastArgs,        \* arguments of the last expand_taxonomy_db call
  lastErr,         \* the exception the last call raised ("" if none)
  expandResults,   \* lastErr of every expand_taxonomy_db call so far
  findArg,         \* argument of the last find_refseq_header call
  findRet,         \* its result: [hit, header]
  \* ---- create_header_taxid_file and parse_refseqs ----
  fasta,           \* what find_files and read_fasta give: per file, its header lines
  gi_taxid,        \* rows of the lookup store the resolver reads
  rpos,            \* records create_header_taxid_mappings has taken
  rstate,          \* "scanning", "exhausted", "aborted"
  rwhere,          \* the step of the last record that raised ("" if none)
  rerr,            \* the exception that ended create_header_taxid_file
  yielded,         \* (header, taxid) pairs the generator yielded
  outfile,         \* characters written to the mapping file
  parsed,          \* what parse_refseqs made of the file: [done, pairs, err]
  \* ---- parse_gff ----
  gff,             \* the characters of the GFF file
  gstate,          \* "start", "comments", "records", "done", "rejected"
  gread,           \* readline() calls made
  records,         \* tuples the generator yielded
  errors,          \* lines reported with logging.error
  reachedEnd       \* "Reached end of" debug messages

storeVars == <<files, files0, sqlite3db_file, gi_taxid_dmp, rows_per_chunk, pc,
               pending, pos, chunksDone, builds, commits, err, ret>>

dbVars == <<db, cache, lastOp, lastArgs, lastErr, expandResults, findArg, findRet>>

resolverVars == <<fasta, gi_taxid, rpos, rstate, rwhere, rerr, yielded, outfile, parsed>>

gffVars == <<gff, gstate, gread, records, errors, reachedEnd>>

vars == <<storeVars, dbVars, resolverVars, gffVars>>

\* ---------------------------------------------------------------- bounds
MaxLines == 3
MaxGi == 3
MaxChunk == 4
MaxRows == 2
MaxExpands == 2
MaxRecords == 2
MaxGffLines == 3

\* taxids the inputs are drawn from
Taxids == {7, 9}

\* ---------------------------------------------------------------- helpers
SeqsUpTo(S, n) == UNION {[1..k -> S] : k \in 0..n}

Range(s) == {s[i] : i \in 1..Len(s)}

\* Python's None / a returned int, as one comparable value.
None == [isNone |-> TRUE, v |-> 0]
Some(x) == [isNone |-> FALSE, v |-> x]

\* ---------------------------------------------------------------- dump file
\* A dump line after line.split(): a sequence of tokens; a token is an integer
\* literal or something int() rejects.
IntTok(n) == [int |-> TRUE, v |-> n]
BadTok == [int |-> FALSE, v |-> 0]

WellFormedLines == {<<IntTok(g), IntTok(t)>> : g \in 1..MaxGi, t \in Taxids}
MalformedLines == {<<IntTok(1)>>, <<IntTok(1), BadTok>>}
Lines == WellFormedLines \cup MalformedLines

\* gi, taxid = line.split(); yield int(gi), int(taxid)
LineOk(line) == Len(line) = 2 /\ line[1].int /\ line[2].int
int_pair(line) == <<line[1].v, line[2].v>>

\* grouper(n, gi_taxid_generator(dmp)): the next group of at most n pairs, read
\* from the lines after pos. A line the generator cannot parse raises
\* ValueError while the group is being collected: the group is never yielded.
grouper(lines, p, n) == SubSeq(lines, p + 1, IF p + n <= Len(lines) THEN p + n ELSE Len(lines))
gi_taxid_generator(lines, p, n) ==
  LET ls == grouper(lines, p, n)
  IN  IF \A i \in 1..Len(ls) : LineOk(ls[i])
      THEN [ok |-> TRUE, pairs |-> [i \in 1..Len(ls) |-> int_pair(ls[i])]]
      ELSE [ok |-> FALSE, pairs |-> <<>>]

\* ---------------------------------------------------------------- sqlite
\* INSERT INTO gi_taxid VALUES (?, ?) on a table whose gi is the PRIMARY KEY.
HasGi(tbl, gi) == \E i \in 1..Len(tbl) : tbl[i][1] = gi

\* con.executemany(INSERT, pairs): one INSERT per pair, in order; the first
\* pair whose gi is already in the table raises IntegrityError and the
\* pairs before it stay inserted in the open transaction.
\* a faulty variant: execute() in place of executemany(): only the first pair is inserted
ExecuteMany_FirstOnly(tbl, pairs) ==
  IF pairs = <<>> THEN [ok |-> TRUE, rows |-> tbl]
  ELSE IF HasGi(tbl, Head(pairs)[1]) THEN [ok |-> FALSE, rows |-> tbl]
  ELSE [ok |-> TRUE, rows |-> Append(tbl, Head(pairs))]

RECURSIVE ExecuteMany(_, _)
ExecuteMany(tbl, pairs) ==
  IF pairs = <<>> THEN [ok |-> TRUE, rows |-> tbl]
  ELSE IF HasGi(tbl, Head(pairs)[1]) THEN [ok |-> FALSE, rows |-> tbl]
  ELSE ExecuteMany(Append(tbl, Head(pairs)), Tail(pairs))

\* SELECT taxid FROM gi_taxid WHERE gi = ?  -> the result rows, 1-tuples
SelectTaxid(tbl, key) ==
  LET hits == SelectSeq(tbl, LAMBDA r : r[1] = key)
  IN  [i \in 1..Len(hits) |-> <<hits[i][2]>>]

\* cursor.fetchone(): the first result row, or None
FetchOne(rs) == IF rs = <<>> THEN None ELSE Some(rs[1])

\* a faulty variant: the query selects the gi column
getitem_WrongColumn(tbl, key) ==
  IF HasGi(tbl, key) THEN Some(key) ELSE None

\* Taxdump_DB_wrapper.__getitem__: taxid[0], or None on the TypeError that
\* subscripting None raises
getitem(tbl, key) ==
  LET taxid == FetchOne(SelectTaxid(tbl, key))
  IN  IF taxid.isNone THEN None ELSE Some(taxid.v[1])

\* a faulty variant: SELECT Count(DISTINCT taxid)
num_mappings_Distinct(tbl) == Cardinality({tbl[i][2] : i \in 1..Len(tbl)})

\* Taxdump_DB_wrapper.__len__: SELECT Count(*) FROM gi_taxid
num_mappings(tbl) == Len(tbl)

\* ---------------------------------------------------------------- store
Paths == {"gi_taxid.db", "a.db"}
NoFile == [exists |-> FALSE, rows |-> <<>>]
File(rows) == [exists |-> TRUE, rows |-> rows]

\* self.sqlite3db_file: the default name when the argument is None
DbPath(arg) == IF arg = "None" THEN "gi_taxid.db" ELSE arg

\* what the connection sees: committed rows and its own transaction's rows
Visible == files[DbPath(sqlite3db_file)].rows \o pending

\* stores a previous run may have left at a path
PreStores == {<<>>, <<<<1, 9>>>>, <<<<2, 7>>, <<1, 7>>>>}

Dumps == {[kind |-> "none", lines |-> <<>>], [kind |-> "missing", lines |-> <<>>]}
         \cup {[kind |-> "file", lines |-> ls] : ls \in SeqsUpTo(Lines, MaxLines)}

InitStore ==
  /\ sqlite3db_file \in {"None", "a.db"}
  /\ rows_per_chunk \in 1..MaxChunk
  /\ \/ /\ files \in [Paths -> {NoFile}]
        /\ gi_taxid_dmp \in Dumps
     \/ /\ files \in [Paths -> {NoFile} \cup {File(r) : r \in PreStores}]
        /\ gi_taxid_dmp \in {d \in Dumps : Len(d.lines) <= 1}
  /\ files0 = files
  /\ pc = "start"
  /\ pending = <<>>
  /\ pos = 0
  /\ chunksDone = 0
  /\ builds = 0
  /\ commits = 0
  /\ err = ""
  /\ ret = [op |-> "", key |-> 0, val |-> None]

\* a faulty variant: the dump argument is never found missing
DumpMissing_Never(dmp) == FALSE

\* if not gi_taxid_dmp
DumpMissing(dmp) == dmp.kind = "none"

\* Taxdump_DB_wrapper.__init__, up to the first iteration of the load loop
Taxdump_DB_wrapper_init ==
  /\ pc = "start"
  /\ LET p == DbPath(sqlite3db_file)
     IN  IF files[p].exists
         THEN /\ pc' = "open"
              /\ UNCHANGED <<files, builds, err>>
         ELSE IF DumpMissing(gi_taxid_dmp)
         THEN /\ pc' = "failed"
              /\ err' = "Argument gi_taxid_dmp required to create new DB."
              /\ UNCHANGED <<files, builds>>
         ELSE \* create_gi_taxid_db: connect, PRAGMAs, CREATE TABLE gi_taxid
              /\ pc' = "loading"
              /\ builds' = builds + 1
              /\ files' = [files EXCEPT ![p] = File(<<>>)]
              /\ err' = ""
  /\ UNCHANGED <<files0, sqlite3db_file, gi_taxid_dmp, rows_per_chunk, pending,
                 pos, chunksDone, commits, ret>>

\* one iteration of: for pairs in grouper(rows_per_chunk, generator): executemany
create_gi_taxid_db_insert ==
  /\ pc = "loading"
  /\ \/ gi_taxid_dmp.kind = "missing"
     \/ pos < Len(gi_taxid_dmp.lines)
  /\ IF gi_taxid_dmp.kind = "missing"
     THEN /\ pc' = "failed"
          /\ err' = "FileNotFoundError"
          /\ UNCHANGED <<pending, pos, chunksDone>>
     ELSE LET c == gi_taxid_generator(gi_taxid_dmp.lines, pos, rows_per_chunk)
              r == ExecuteMany(Visible, c.pairs)
              committed == Len(files[DbPath(sqlite3db_file)].rows)
          IN  IF ~c.ok
              THEN /\ pc' = "failed"
                   /\ err' = "ValueError"
                   /\ UNCHANGED <<pending, pos, chunksDone>>
              ELSE IF ~r.ok
              THEN /\ pc' = "failed"
                   /\ err' = "IntegrityError"
                   /\ pending' = SubSeq(r.rows, committed + 1, Len(r.rows))
                   /\ UNCHANGED <<pos, chunksDone>>
              ELSE /\ pending' = SubSeq(r.rows, committed + 1, Len(r.rows))
                   /\ pos' = pos + Len(c.pairs)
                   /\ chunksDone' = chunksDone + 1
                   /\ UNCHANGED <<pc, err>>
  /\ UNCHANGED <<files, files0, sqlite3db_file, gi_taxid_dmp, rows_per_chunk,
                 builds, commits, ret>>

\* a faulty variant: the commit after the loop is left out
create_gi_taxid_db_commit_Missing ==
  /\ pc = "loading"
  /\ gi_taxid_dmp.kind = "file"
  /\ pos = Len(gi_taxid_dmp.lines)
  /\ pc' = "open"
  /\ UNCHANGED <<files, files0, sqlite3db_file, gi_taxid_dmp, rows_per_chunk, pos,
                 pending, commits, chunksDone, builds, err, ret>>

\* the loop is exhausted: con.commit(), the count for the log, return con
create_gi_taxid_db_commit ==
  /\ pc = "loading"
  /\ gi_taxid_dmp.kind = "file"
  /\ pos = Len(gi_taxid_dmp.lines)
  /\ files' = [files EXCEPT ![DbPath(sqlite3db_file)] = File(Visible)]
  /\ pending' = <<>>
  /\ commits' = commits + 1
  /\ pc' = "open"
  /\ UNCHANGED <<files0, sqlite3db_file, gi_taxid_dmp, rows_per_chunk, pos,
                 chunksDone, builds, err, ret>>

\* gi_taxid_db[key]
Taxdump_DB_wrapper_getitem ==
  /\ pc = "open"
  /\ \E key \in 1..(MaxGi + 1) :
       ret' = [op |-> "getitem", key |-> key, val |-> getitem(Visible, key)]
  /\ UNCHANGED <<files, files0, sqlite3db_file, gi_taxid_dmp, rows_per_chunk, pc,
                 pending, pos, chunksDone, builds, commits, err>>

\* len(gi_taxid_db)
Taxdump_DB_wrapper_len ==
  /\ pc = "open"
  /\ ret' = [op |-> "len", key |-> 0, val |-> Some(num_mappings(Visible))]
  /\ UNCHANGED <<files, files0, sqlite3db_file, gi_taxid_dmp, rows_per_chunk, pc,
                 pending, pos, chunksDone, builds, commits, err>>

\* ---------------------------------------------------------------- NCBITaxa_mod
\* tables of the ete3 taxonomy store, and the tables expand_taxonomy_db names
BaseTables == {"species", "synonym", "merged"}
DroppedTables == {"version", "peptides", "discriminative", "refseqs", "annotations"}
CreatedTables == <<"version", "peptides", "discriminative", "refseqs", "annotations", "gene">>
AllTables == BaseTables \cup Range(CreatedTables)

NoTable == [exists |-> FALSE, rows |-> <<>>]
EmptyTable == [exists |-> TRUE, rows |-> <<>>]

\* column of a table that is its PRIMARY KEY (0: none)
PrimaryKey(t) ==
  CASE t = "refseqs" -> 1
    [] t = "gene" -> 2
    [] t = "discriminative" -> 1
    [] OTHER -> 0

\* one SQL statement on the store: the store after it and the error it raised
Execute(d, st) ==
  CASE st.kind = "drop" ->     \* DROP TABLE IF EXISTS t
         [db |-> [d EXCEPT ![st.table] = NoTable], err |-> ""]
    [] st.kind = "create" ->   \* CREATE TABLE t(...)
         IF d[st.table].exists
         THEN [db |-> d, err |-> "OperationalError"]
         ELSE [db |-> [d EXCEPT ![st.table] = EmptyTable], err |-> ""]
    [] st.kind = "insert" ->   \* INSERT INTO t VALUES (...)
         IF ~d[st.table].exists
         THEN [db |-> d, err |-> "OperationalError"]
         ELSE IF /\ PrimaryKey(st.table) # 0
                 /\ \E i \in 1..Len(d[st.table].rows) :
                      d[st.table].rows[i][PrimaryKey(st.table)] = st.row[PrimaryKey(st.table)]
         THEN [db |-> d, err |-> "IntegrityError"]
         ELSE [db |-> [d EXCEPT ![st.table].rows = Append(@, st.row)], err |-> ""]

\* statements run in order; the first that raises ends the call
RECURSIVE ExecuteAll(_, _)
ExecuteAll(d, sts) ==
  IF sts = <<>> THEN [db |-> d, err |-> ""]
  ELSE LET r == Execute(d, Head(sts))
       IN  IF r.err # "" THEN r ELSE ExecuteAll(r.db, Tail(sts))

Drop(t) == [kind |-> "drop", table |-> t, row |-> <<>>]
Create(t) == [kind |-> "create", table |-> t, row |-> <<>>]
Insert(t, row) == [kind |-> "insert", table |-> t, row |-> row]
Inserts(t, rows) == [i \in 1..Len(rows) |-> Insert(t, rows[i])]

\* the statements of expand_taxonomy_db, in the order of the source
ExpandStatements(creation_date, refseq_ver, taxonomy_ver, comment) ==
  << Drop("version"), Drop("peptides"), Drop("discriminative"), Drop("refseqs"),
     Drop("annotations"),
     Create("version"),
     Insert("version", <<creation_date, refseq_ver, taxonomy_ver, comment>>),
     Create("peptides"), Create("discriminative"), Create("refseqs"),
     Create("annotations"), Create("gene") >>

\* ---- inputs ----
\* reference-sequence headers and query substrings, as sequences of characters
Headers == { <<"a", "b">>, <<"A", "b">>, <<"c", "b">> }
Identifiers == { <<"b">>, <<"a">>, <<"d">> }
RefseqRows == {<<h, t>> : h \in Headers, t \in {9}}
GeneRows == { <<9, 1, "sym", "descr">> }
AnnotationRows == { <<<<"a", "b">>, 1, 2, "attr">> }
Dates == {"2015-30-17"}
Versions == {"v1", "v2"}
Comments == {"second try"}

\* the store ete3 made, and the store an earlier prepare_db run extended
BaseDb == [t \in AllTables |-> IF t \in BaseTables THEN EmptyTable ELSE NoTable]
ExtendedDb ==
  [t \in AllTables |->
     CASE t = "version" -> [exists |-> TRUE, rows |-> << <<"2015-30-17", "v1", "v1", "second try">> >>]
       [] t = "refseqs" -> [exists |-> TRUE, rows |-> << <<<<"c", "b">>, 9>> >>]
       [] OTHER -> EmptyTable]

InitDb ==
  /\ db \in {BaseDb, ExtendedDb}
  /\ cache = <<>>
  /\ lastOp = ""
  /\ lastArgs = <<>>
  /\ lastErr = ""
  /\ expandResults = <<>>
  /\ findArg = <<>>
  /\ findRet = [hit |-> FALSE, header |-> <<>>]

\* NCBITaxa_mod.expand_taxonomy_db(refseq_ver, taxonomy_ver, comment)
expand_taxonomy_db ==
  /\ Len(expandResults) < MaxExpands
  /\ \E creation_date \in Dates, refseq_ver \in Versions, taxonomy_ver \in Versions,
        comment \in Comments :
       LET r == ExecuteAll(db, ExpandStatements(creation_date, refseq_ver, taxonomy_ver, comment))
       IN  /\ db' = r.db
           /\ lastErr' = r.err
           /\ expandResults' = Append(expandResults, r.err)
           /\ lastArgs' = <<refseq_ver, taxonomy_ver, comment>>
  /\ lastOp' = "expand_taxonomy_db"
  /\ UNCHANGED <<cache, findArg, findRet>>

\* executemany(INSERT INTO t ...) and, when it did not raise, commit
InsertMany(t, rows, op) ==
  /\ Len(db[t].rows) + Len(rows) <= MaxRows
  /\ LET r == ExecuteAll(db, Inserts(t, rows))
     IN  /\ db' = r.db
         /\ lastErr' = r.err
  /\ lastOp' = op
  /\ UNCHANGED <<cache, lastArgs, expandResults, findArg, findRet>>

\* NCBITaxa_mod.insert_refseqs_into_db(refseqs)
insert_refseqs_into_db ==
  \E rows \in SeqsUpTo(RefseqRows, MaxRows) \ {<<>>} :
     InsertMany("refseqs", rows, "insert_refseqs_into_db")

\* NCBITaxa_mod.insert_gene_info(gene_infos)
insert_gene_info ==
  \E rows \in SeqsUpTo(GeneRows, 1) \ {<<>>} : InsertMany("gene", rows, "insert_gene_info")

\* NCBITaxa_mod.insert_annotations(annotations)
insert_annotations ==
  \E rows \in SeqsUpTo(AnnotationRows, 1) \ {<<>>} :
     InsertMany("annotations", rows, "insert_annotations")

\* ---- find_refseq_header ----
\* SQLite's LIKE on ASCII text: letters match without regard to case, "_" in
\* the pattern matches any one character and "%" any run of characters
Fold(c) == CASE c = "A" -> "a" [] c = "B" -> "b" [] c = "C" -> "c" [] OTHER -> c

RECURSIVE Like(_, _)
Like(s, pat) ==
  IF pat = <<>> THEN s = <<>>
  ELSE IF Head(pat) = "%"
       THEN \E k \in 0..Len(s) : Like(SubSeq(s, k + 1, Len(s)), Tail(pat))
  ELSE /\ s # <<>>
       /\ Head(pat) = "_" \/ Fold(Head(pat)) = Fold(Head(s))
       /\ Like(Tail(s), Tail(pat))

\* "%" + sequence_identifier + "%"
LikePattern(sequence_identifier) == <<"%">> \o sequence_identifier \o <<"%">>

\* rows of SELECT header FROM refseqs WHERE header LIKE ?  (as a set: the
\* query has no ORDER BY, and the engine may scan the table or its key index)
SelectHeaderLike(d, pat) ==
  {d["refseqs"].rows[i][1] : i \in {k \in 1..Len(d["refseqs"].rows) :
                                      Like(d["refseqs"].rows[k][1], pat)}}

\* a faulty variant: more than one matching header is an error
FindOutcomes_ExactlyOne(d, sequence_identifier) ==
  IF ~d["refseqs"].exists THEN {[err |-> "OperationalError", header |-> <<>>]}
  ELSE LET hits == SelectHeaderLike(d, LikePattern(sequence_identifier))
       IN  IF Cardinality(hits) # 1 THEN {[err |-> "TypeError", header |-> <<>>]}
           ELSE {[err |-> "", header |-> h] : h \in hits}

\* the body of find_refseq_header: execute(...).fetchone()[0]; fetchone()
\* gives the first result row, None when there is none, and None[0] raises
FindOutcomes(d, sequence_identifier) ==
  IF ~d["refseqs"].exists THEN {[err |-> "OperationalError", header |-> <<>>]}
  ELSE LET hits == SelectHeaderLike(d, LikePattern(sequence_identifier))
       IN  IF hits = {} THEN {[err |-> "TypeError", header |-> <<>>]}
           ELSE {[err |-> "", header |-> h] : h \in hits}

\* functools.lru_cache(maxsize=2): entries [key, value], least recently used first
LruMaxsize == 2
CacheHit(c, key) == \E i \in 1..Len(c) : c[i].key = key
CacheGet(c, key) == (CHOOSE i \in 1..Len(c) : c[i].key = key)
CacheTouch(c, key) ==
  SelectSeq(c, LAMBDA e : e.key # key) \o <<c[CacheGet(c, key)]>>
CachePut(c, key, value) ==
  LET full == Append(c, [key |-> key, value |-> value])
  IN  IF Len(full) > LruMaxsize THEN Tail(full) ELSE full

\* NCBITaxa_mod.find_refseq_header(sequence_identifier), under its lru_cache
find_refseq_header ==
  /\ \E sequence_identifier \in Identifiers :
       /\ findArg' = sequence_identifier
       /\ IF CacheHit(cache, sequence_identifier)
          THEN /\ findRet' = [hit |-> TRUE,
                              header |-> cache[CacheGet(cache, sequence_identifier)].value]
               /\ lastErr' = ""
               /\ cache' = CacheTouch(cache, sequence_identifier)
          ELSE \E o \in FindOutcomes(db, sequence_identifier) :
                 /\ findRet' = [hit |-> FALSE, header |-> o.header]
                 /\ lastErr' = o.err
                 /\ cache' = IF o.err = "" THEN CachePut(cache, sequence_identifier, o.header)
                             ELSE cache
  /\ lastOp' = "find_refseq_header"
  /\ UNCHANGED <<db, lastArgs, expandResults>>

\* ---------------------------------------------------------------- text
\* A str is a sequence of one-character strings.
Whitespace == {" ", "\t", "\n"}
Digits == <<"0", "1", "2", "3", "4", "5", "6", "7", "8", "9">>

StartsWith(s, prefix) ==
  Len(s) >= Len(prefix) /\ SubSeq(s, 1, Len(prefix)) = prefix

\* s.split(sep), sep not empty: the pieces between the occurrences of sep,
\* found left to right
RECURSIVE SplitOn(_, _)
SplitOn(s, sep) ==
  LET at == {k \in 1..(Len(s) - Len(sep) + 1) : SubSeq(s, k, k + Len(sep) - 1) = sep}
  IN  IF at = {} THEN <<s>>
      ELSE LET k == CHOOSE x \in at : \A y \in at : x <= y
           IN  <<SubSeq(s, 1, k - 1)>> \o SplitOn(SubSeq(s, k + Len(sep), Len(s)), sep)

\* s.split(): the maximal runs of non-whitespace characters
RECURSIVE SplitWS(_)
SplitWS(s) ==
  IF s = <<>> THEN <<>>
  ELSE IF Head(s) \in Whitespace THEN SplitWS(Tail(s))
  ELSE LET ends == {k \in 1..Len(s) : s[k] \in Whitespace}
           n == IF ends = {} THEN Len(s) + 1 ELSE CHOOSE x \in ends : \A y \in ends : x <= y
       IN  <<SubSeq(s, 1, n - 1)>> \o SplitWS(SubSeq(s, n, Len(s)))

\* the text file's lines as "for line in f" gives them, line ends kept
RECURSIVE ReadLines(_)
ReadLines(s) ==
  IF s = <<>> THEN <<>>
  ELSE LET ends == {k \in 1..Len(s) : s[k] = "\n"}
           n == IF ends = {} THEN Len(s) ELSE CHOOSE x \in ends : \A y \in ends : x <= y
       IN  <<SubSeq(s, 1, n)>> \o ReadLines(SubSeq(s, n + 1, Len(s)))

\* int(s) for a str: an optional sign and decimal digits; anything else
\* raises ValueError
IsDigit(c) == \E d \in 1..10 : Digits[d] = c
DigitValue(c) == (CHOOSE d \in 1..10 : Digits[d] = c) - 1
Unsigned(s) == s # <<>> /\ \A k \in 1..Len(s) : IsDigit(s[k])
IsInt(s) ==
  IF s # <<>> /\ Head(s) \in {"-", "+"} THEN Unsigned(Tail(s)) ELSE Unsigned(s)
RECURSIVE UnsignedValue(_)
UnsignedValue(s) ==
  IF s = <<>> THEN 0 ELSE 10 * UnsignedValue(SubSeq(s, 1, Len(s) - 1)) + DigitValue(s[Len(s)])
ToInt(s) ==
  IF Head(s) = "-" THEN 0 - UnsignedValue(Tail(s))
  ELSE IF Head(s) = "+" THEN UnsignedValue(Tail(s))
  ELSE UnsignedValue(s)

\* "{}".format(n) for an int
RECURSIVE NatToStr(_)
NatToStr(n) ==
  IF n < 10 THEN <<Digits[n + 1]>> ELSE NatToStr(n \div 10) \o <<Digits[(n % 10) + 1]>>
IntToStr(n) == IF n < 0 THEN <<"-">> \o NatToStr(0 - n) ELSE NatToStr(n)

\* ---------------------------------------------------------------- resolver
\* header lines of FASTA records (seqinfo[0])
RawMapped == <<"g", "i", "|", "1", "|", "r", "e", "f", "|", "N", "|", " ", "d">>
RawFallback == <<"g", "i", "|", "2", "|", "r", "e", "f", "|", "M", "|">>
RawNoRef == <<"g", "i", "|", "3", "|">>
RawHeaders == {RawMapped, RawFallback, RawNoRef}

\* what the E-utils request can come back with: a body, or no response
BodyTaxid == <<"<", "t", "a", "x", "i", "d", ">", "4", "0", "<", "/", "t", "a", "x", "i", "d", ">">>
BodyTaxidZero == <<"<", "t", "a", "x", "i", "d", ">", "0", "<", "/", "t", "a", "x", "i", "d", ">">>
BodyNoTaxid == <<"<", "e", "/", ">">>
Responses == {[ok |-> TRUE, text |-> BodyTaxid], [ok |-> TRUE, text |-> BodyTaxidZero],
              [ok |-> TRUE, text |-> BodyNoTaxid], [ok |-> FALSE, text |-> <<>>]}

ResolverStores == { << <<1, 9>> >>, << <<1, 12>>, <<3, 7>> >> }

\* truth value of a result that is None or an int
Truthy(x) == ~x.isNone /\ x.v # 0

Raised(where, e) == [err |-> e, where |-> where, val |-> None]
Returned(x) == [err |-> "", where |-> "", val |-> x]

\* a faulty variant: the whole header line is taken as the header
HeaderOf_WholeLine(seqinfo0) ==
  IF SplitWS(seqinfo0) = <<>> THEN Raised("header", "IndexError")
  ELSE Returned(seqinfo0)

\* header = seqinfo[0].split()[0]
HeaderOf(seqinfo0) ==
  IF SplitWS(seqinfo0) = <<>> THEN Raised("header", "IndexError")
  ELSE Returned(SplitWS(seqinfo0)[1])

\* text.split(tag)[1].split(end)[0]
Between(text, tag, end) ==
  IF Len(SplitOn(text, tag)) < 2 THEN Raised("", "IndexError")
  ELSE Returned(SplitOn(SplitOn(text, tag)[2], end)[1])

\* gi = int(header.split("gi|")[1].split("|")[0])
GiOf(header) ==
  LET f == Between(header, <<"g", "i", "|">>, <<"|">>)
  IN  IF f.err # "" THEN Raised("gi", f.err)
      ELSE IF ~IsInt(f.val) THEN Raised("gi", "ValueError")
      ELSE Returned(ToInt(f.val))

\* accno = header.split("ref|")[1].split("|")[0]
AccnoOf(header) ==
  LET f == Between(header, <<"r", "e", "f", "|">>, <<"|">>)
  IN  IF f.err # "" THEN Raised("accno", f.err) ELSE f

\* efetch_taxid(accno), given what requests.get came back with
efetch_taxid(response) ==
  IF ~response.ok THEN Raised("efetch", "ConnectionError")
  ELSE LET f == Between(response.text, <<"t", "a", "x", "i", "d", ">">>, <<"<">>)
       IN  IF f.err # "" THEN Raised("efetch", f.err)
           ELSE IF ~IsInt(f.val) THEN Raised("efetch", "ValueError")
           ELSE IF ToInt(f.val) # 0 THEN Returned(Some(ToInt(f.val)))
           ELSE Returned(None)

\* one pass of the inner loop body of create_header_taxid_mappings:
\* [err, where, yield], yield a sequence of no or one (header, taxid) pair
header_taxid_of(seqinfo0, store, response) ==
  LET h == HeaderOf(seqinfo0) IN
  IF h.err # "" THEN [err |-> h.err, where |-> h.where, yield |-> <<>>] ELSE
  LET gi == GiOf(h.val) IN
  IF gi.err # "" THEN [err |-> gi.err, where |-> gi.where, yield |-> <<>>] ELSE
  LET taxid == getitem(store, gi.val) IN
  IF Truthy(taxid) THEN [err |-> "", where |-> "", yield |-> << <<h.val, taxid.v>> >>] ELSE
  LET accno == AccnoOf(h.val) IN
  IF accno.err # "" THEN [err |-> accno.err, where |-> accno.where, yield |-> <<>>] ELSE
  LET t == efetch_taxid(response) IN
  IF t.err # "" THEN [err |-> t.err, where |-> t.where, yield |-> <<>>] ELSE
  IF Truthy(t.val) THEN [err |-> "", where |-> "", yield |-> << <<h.val, t.val.v>> >>]
  ELSE [err |-> "", where |-> "", yield |-> <<>>]

\* whether the record gets as far as the network request
NeedsFetch(seqinfo0, store) ==
  /\ HeaderOf(seqinfo0).err = ""
  /\ GiOf(HeaderOf(seqinfo0).val).err = ""
  /\ ~Truthy(getitem(store, GiOf(HeaderOf(seqinfo0).val).val))
  /\ AccnoOf(HeaderOf(seqinfo0).val).err = ""

\* the records in the order the two nested loops visit them
RECURSIVE Flatten(_)
Flatten(fs) == IF fs = <<>> THEN <<>> ELSE Head(fs) \o Flatten(Tail(fs))

\* outfile.write("{}\t{}\n".format(*header_taxid))
FormatPair(header_taxid) == header_taxid[1] \o <<"\t">> \o IntToStr(header_taxid[2]) \o <<"\n">>

\* parse_refseqs(filename): the pairs it yields and the error that ends it
RECURSIVE parse_refseqs_lines(_)
parse_refseqs_lines(ls) ==
  IF ls = <<>> THEN [pairs |-> <<>>, err |-> ""]
  ELSE LET toks == SplitWS(Head(ls))
       IN  IF Len(toks) # 2 \/ ~IsInt(toks[IF Len(toks) = 2 THEN 2 ELSE 1])
           THEN [pairs |-> <<>>, err |-> "ValueError"]
           ELSE LET rest == parse_refseqs_lines(Tail(ls))
                IN  [pairs |-> << <<toks[1], ToInt(toks[2])>> >> \o rest.pairs,
                     err |-> rest.err]
parse_refseqs(text) == parse_refseqs_lines(ReadLines(text))

InitResolver ==
  /\ fasta \in [1..2 -> SeqsUpTo(RawHeaders, MaxRecords)]
  /\ gi_taxid \in ResolverStores
  /\ rpos = 0
  /\ rstate = "scanning"
  /\ rwhere = ""
  /\ rerr = ""
  /\ yielded = <<>>
  /\ outfile = <<>>
  /\ parsed = [done |-> FALSE, pairs |-> <<>>, err |-> ""]

\* create_header_taxid_file takes the next pair from the generator and writes
\* it: the generator runs its loop body on the next record
create_header_taxid_mappings ==
  /\ rstate = "scanning"
  /\ rpos < Len(Flatten(fasta))
  /\ LET seqinfo0 == Flatten(fasta)[rpos + 1]
     IN  \E response \in IF NeedsFetch(seqinfo0, gi_taxid) THEN Responses
                         ELSE {[ok |-> FALSE, text |-> <<>>]} :
           LET r == header_taxid_of(seqinfo0, gi_taxid, response)
           IN  /\ rwhere' = r.where
               /\ rerr' = r.err
               /\ rstate' = IF r.err # "" THEN "aborted" ELSE "scanning"
               /\ yielded' = yielded \o r.yield
               /\ outfile' = IF r.yield = <<>> THEN outfile ELSE outfile \o FormatPair(r.yield[1])
  /\ rpos' = rpos + 1
  /\ UNCHANGED <<fasta, gi_taxid, parsed>>

\* the generator is exhausted: the file is closed and the count is logged,
\* a name that is unbound when no pair was written
create_header_taxid_file_close ==
  /\ rstate = "scanning"
  /\ rpos = Len(Flatten(fasta))
  /\ rstate' = "exhausted"
  /\ rerr' = IF yielded = <<>> THEN "UnboundLocalError" ELSE ""
  /\ rwhere' = ""
  /\ UNCHANGED <<fasta, gi_taxid, rpos, yielded, outfile, parsed>>

\* a later run reads the mapping file: parse_refseqs(refseqs)
prepare_db_read ==
  /\ rstate \in {"exhausted", "aborted"}
  /\ ~parsed.done
  /\ parsed' = [done |-> TRUE, pairs |-> parse_refseqs(outfile).pairs,
                err |-> parse_refseqs(outfile).err]
  /\ UNCHANGED <<fasta, gi_taxid, rpos, rstate, rwhere, rerr, yielded, outfile>>

\* ---------------------------------------------------------------- parse_gff
\* lines a GFF file is made of, without their line reachedEnd
GffVersionLine == <<"#", "#", "g", "f", "f", "-", "v", "e", "r", "s", "i", "o", "n", " ", "3">>
GffCommentLine == <<"#", "c">>
GffSentinelLine == <<"#", "#", "#">>
GffRecordLine == <<"s", "\t", ".", "\t", "g", "\t", "1", "\t", "9", "\t", ".", "\t", "+", "\t", ".", "\t", "a">>
GffHashRecordLine == <<"#", "\t", ".", "\t", "g", "\t", "1", "\t", "9", "\t", ".", "\t", "+", "\t", ".", "\t", "a">>
GffShortLine == <<"s", "\t", "1">>
GffLines == {GffCommentLine, GffSentinelLine, GffRecordLine, GffHashRecordLine,
             GffShortLine, <<>>}

RECURSIVE JoinLines(_)
JoinLines(ls) == IF ls = <<>> THEN <<>> ELSE Head(ls) \o <<"\n">> \o JoinLines(Tail(ls))

\* files: a first line, more lines, and a last line with or without its line end
GffFiles ==
  LET bodies == {JoinLines(<<first>> \o ls) :
                   first \in {GffVersionLine, GffRecordLine}, ls \in SeqsUpTo(GffLines, MaxGffLines)}
  IN  bodies \cup {SubSeq(b, 1, Len(b) - 1) : b \in bodies}

\* f.readline(): the n-th line with its line end, "" at the end of the file
ReadLine(text, n) == IF n <= Len(ReadLines(text)) THEN ReadLines(text)[n] ELSE <<>>

\* the variable line of parse_gff
CurrentLine == ReadLine(gff, gread)

InitGff ==
  /\ gff \in GffFiles
  /\ gstate = "start"
  /\ gread = 0
  /\ records = <<>>
  /\ errors = <<>>
  /\ reachedEnd = 0

\* open, first readline, and the version check
parse_gff_open ==
  /\ gstate = "start"
  /\ gread' = 1
  /\ gstate' = IF StartsWith(ReadLine(gff, 1), GffVersionLine) THEN "comments" ELSE "rejected"
  /\ UNCHANGED <<gff, records, errors, reachedEnd>>

\* while line.startswith("#"): line = f.readline()
parse_gff_skip ==
  /\ gstate = "comments"
  /\ StartsWith(CurrentLine, <<"#">>)
  /\ gread' = gread + 1
  /\ UNCHANGED <<gff, gstate, records, errors, reachedEnd>>

\* if line == "###"
IsSentinel(line) == line = GffSentinelLine

\* one pass of the body of "while line:"
parse_gff_line ==
  /\ gstate \in {"comments", "records"}
  /\ gstate = "comments" => ~StartsWith(CurrentLine, <<"#">>)
  /\ CurrentLine # <<>>
  /\ LET fields == SplitOn(CurrentLine, <<"\t">>)
     IN  IF Len(fields) = 9
         THEN /\ records' = Append(records, <<fields[1], fields[4], fields[5], fields[9]>>)
              /\ UNCHANGED <<errors, reachedEnd>>
         ELSE IF IsSentinel(CurrentLine)
         THEN /\ reachedEnd' = reachedEnd + 1
              /\ UNCHANGED <<records, errors>>
         ELSE /\ errors' = Append(errors, CurrentLine)
              /\ UNCHANGED <<records, reachedEnd>>
  /\ gread' = gread + 1
  /\ gstate' = "records"
  /\ UNCHANGED gff

\* readline() gave "": the generator returns
parse_gff_end ==
  /\ gstate \in {"comments", "records"}
  /\ CurrentLine = <<>>
  /\ gstate' = "done"
  /\ UNCHANGED <<gff, gread, records, errors, reachedEnd>>

\* ---------------------------------------------------------------- specifications
IdleStore ==
  /\ sqlite3db_file = "None"
  /\ rows_per_chunk = 1
  /\ files = [p \in Paths |-> NoFile]
  /\ gi_taxid_dmp = [kind |-> "none", lines |-> <<>>]
  /\ files0 = files
  /\ pc = "idle"
  /\ pending = <<>>
  /\ pos = 0
  /\ chunksDone = 0
  /\ builds = 0
  /\ commits = 0
  /\ err = ""
  /\ ret = [op |-> "", key |-> 0, val |-> None]

IdleDb ==
  /\ db = BaseDb
  /\ cache = <<>>
  /\ lastOp = "idle"
  /\ lastArgs = <<>>
  /\ lastErr = ""
  /\ expandResults = <<>>
  /\ findArg = <<>>
  /\ findRet = [hit |-> FALSE, header |-> <<>>]

IdleResolver ==
  /\ fasta = [i \in 1..2 |-> <<>>]
  /\ gi_taxid = <<>>
  /\ rpos = 0
  /\ rstate = "idle"
  /\ rwhere = ""
  /\ rerr = ""
  /\ yielded = <<>>
  /\ outfile = <<>>
  /\ parsed = [done |-> FALSE, pairs |-> <<>>, err |-> ""]

IdleGff ==
  /\ gff = <<>>
  /\ gstate = "idle"
  /\ gread = 0
  /\ records = <<>>
  /\ errors = <<>>
  /\ reachedEnd = 0

\* the lookup store
Init == InitStore /\ IdleDb /\ IdleResolver /\ IdleGff
Next ==
  \/ Taxdump_DB_wrapper_init /\ UNCHANGED <<dbVars, resolverVars, gffVars>>
  \/ create_gi_taxid_db_insert /\ UNCHANGED <<dbVars, resolverVars, gffVars>>
  \/ create_gi_taxid_db_commit /\ UNCHANGED <<dbVars, resolverVars, gffVars>>
  \/ Taxdump_DB_wrapper_getitem /\ UNCHANGED <<dbVars, resolverVars, gffVars>>
  \/ Taxdump_DB_wrapper_len /\ UNCHANGED <<dbVars, resolverVars, gffVars>>
Spec == Init /\ [][Next]_vars

\* the taxonomy store: the schema extension and the bulk inserts
InitSchema == InitDb /\ IdleStore /\ IdleResolver /\ IdleGff
NextSchema ==
  \/ expand_taxonomy_db /\ UNCHANGED <<storeVars, resolverVars, gffVars>>
  \/ insert_refseqs_into_db /\ UNCHANGED <<storeVars, resolverVars, gffVars>>
  \/ insert_gene_info /\ UNCHANGED <<storeVars, resolverVars, gffVars>>
  \/ insert_annotations /\ UNCHANGED <<storeVars, resolverVars, gffVars>>
SpecSchema == InitSchema /\ [][NextSchema]_vars

\* the taxonomy store: reference sequences and the header resolver
InitFind == InitDb /\ IdleStore /\ IdleResolver /\ IdleGff
NextFind ==
  \/ expand_taxonomy_db /\ UNCHANGED <<storeVars, resolverVars, gffVars>>
  \/ insert_refseqs_into_db /\ UNCHANGED <<storeVars, resolverVars, gffVars>>
  \/ find_refseq_header /\ UNCHANGED <<storeVars, resolverVars, gffVars>>
SpecFind == InitFind /\ [][NextFind]_vars

\* the header resolver, the mapping file and its reader
InitMappings == InitResolver /\ IdleStore /\ IdleDb /\ IdleGff
NextMappings ==
  \/ create_header_taxid_mappings /\ UNCHANGED <<storeVars, dbVars, gffVars>>
  \/ create_header_taxid_file_close /\ UNCHANGED <<storeVars, dbVars, gffVars>>
  \/ prepare_db_read /\ UNCHANGED <<storeVars, dbVars, gffVars>>
SpecMappings == InitMappings /\ [][NextMappings]_vars

\* the GFF parser
InitAnnotations == InitGff /\ IdleStore /\ IdleDb /\ IdleResolver
NextAnnotations ==
  \/ parse_gff_open /\ UNCHANGED <<storeVars, dbVars, resolverVars>>
  \/ parse_gff_skip /\ UNCHANGED <<storeVars, dbVars, resolverVars>>
  \/ parse_gff_line /\ UNCHANGED <<storeVars, dbVars, resolverVars>>
  \/ parse_gff_end /\ UNCHANGED <<storeVars, dbVars, resolverVars>>
SpecAnnotations == InitAnnotations /\ [][NextAnnotations]_vars

\* ================================================================ claims
\* ---- the lookup store (specification Spec) ----
StoreRows == files[DbPath(sqlite3db_file)].rows
DumpLines == gi_taxid_dmp.lines
AllWellFormed ==
  /\ gi_taxid_dmp.kind = "file"
  /\ \A i \in 1..Len(DumpLines) :
       Len(DumpLines[i]) = 2 /\ DumpLines[i][1].int /\ DumpLines[i][2].int
DistinctGis ==
  \A i, j \in 1..Len(DumpLines) : i # j => DumpLines[i][1].v # DumpLines[j][1].v
DumpPairs == [i \in 1..Len(DumpLines) |-> <<DumpLines[i][1].v, DumpLines[i][2].v>>]
ConstructorEnded == pc \in {"open", "failed"}

\* C2 as stated: every dump of N well-formed lines, built on a path that does
\* not exist yet, gives a gi_taxid table of exactly N entries and len() = N.
C2_Original ==
  (builds = 1 /\ AllWellFormed /\ ConstructorEnded) =>
     /\ pc = "open"
     /\ Len(StoreRows) = Len(DumpLines)
     /\ (ret.op = "len" => ret.val = Some(Len(DumpLines)))

\* C2 amended: every dump of N well-formed lines whose identifiers are pairwise
\* distinct, built on a path that does not exist yet, gives a gi_taxid table of
\* exactly N entries and len() = N.
C2_DistinctCount ==
  (builds = 1 /\ AllWellFormed /\ DistinctGis /\ ConstructorEnded) =>
     /\ pc = "open"
     /\ Len(StoreRows) = Len(DumpLines)
     /\ (ret.op = "len" => ret.val = Some(Len(DumpLines)))

\* C2 witness: a built store of two distinct identifiers with one taxid, len() taken
C2_Witness ==
  /\ builds = 1 /\ pc = "open" /\ AllWellFormed /\ DistinctGis
  /\ Len(DumpLines) = 2
  /\ DumpLines[1][2].v = DumpLines[2][2].v
  /\ ret.op = "len"

\* C3: __getitem__ returns, for every identifier in the store, the taxid of
\* its row (for a store this run built: the taxid of its dump line), and None
\* for every identifier that is not in the store.
C3_Lookup ==
  ret.op = "getitem" =>
     /\ \A i \in 1..Len(StoreRows) :
          StoreRows[i][1] = ret.key => ret.val = Some(StoreRows[i][2])
     /\ (\A i \in 1..Len(StoreRows) : StoreRows[i][1] # ret.key) => ret.val = None
     /\ builds = 1 =>
          /\ \A i \in 1..Len(DumpLines) :
               DumpLines[i][1].v = ret.key => ret.val = Some(DumpLines[i][2].v)
          /\ (\A i \in 1..Len(DumpLines) : DumpLines[i][1].v # ret.key) => ret.val = None

\* C3 witness: a lookup of the second of two rows of a built store
C3_Witness ==
  /\ ret.op = "getitem" /\ builds = 1 /\ Len(StoreRows) = 2
  /\ ret.key = StoreRows[2][1] /\ ret.val = Some(StoreRows[2][2])
  /\ ret.key # ret.val.v

\* C5: for pairs with distinct identifiers the load reachedEnd with the same store
\* contents, the dump's pairs in the dump's order, whatever rows_per_chunk is.
C5_ChunkIndependent ==
  (builds = 1 /\ AllWellFormed /\ DistinctGis /\ ConstructorEnded) =>
     /\ pc = "open"
     /\ StoreRows = DumpPairs

\* C5 witness: three pairs loaded in chunks of two, the last chunk short
C5_Witness ==
  /\ builds = 1 /\ pc = "open" /\ Len(DumpLines) = 3
  /\ rows_per_chunk = 2 /\ chunksDone = 2 /\ StoreRows = DumpPairs

\* C8: an existing store file is opened with no build, no write and whatever
\* the dump argument is; with no store file, a missing dump argument fails with
\* the error naming gi_taxid_dmp before any file is created, and a given dump
\* argument starts exactly one build.
C8_Constructor ==
  pc # "start" =>
    LET p == DbPath(sqlite3db_file)
    IN  /\ files0[p].exists =>
             pc = "open" /\ builds = 0 /\ commits = 0 /\ files = files0 /\ err = ""
        /\ (~files0[p].exists /\ gi_taxid_dmp.kind = "none") =>
             /\ pc = "failed"
             /\ err = "Argument gi_taxid_dmp required to create new DB."
             /\ builds = 0 /\ files = files0
        /\ (~files0[p].exists /\ gi_taxid_dmp.kind # "none") => builds = 1

\* C8 witness: no path and no dump given, the default path absent, another store present
C8_Witness ==
  /\ pc = "failed" /\ ~files[DbPath(sqlite3db_file)].exists
  /\ gi_taxid_dmp.kind = "none" /\ sqlite3db_file = "None" /\ files["a.db"].exists

\* C9 as stated: one commit per chunk, so when the load fails in chunk k the
\* pairs of the chunks before k are committed rows of the store.
C9_Original ==
  (builds = 1 /\ pc \in {"loading", "failed"}) =>
     /\ commits = chunksDone
     /\ \A i \in 1..pos : DumpPairs[i] \in Range(StoreRows)

\* C9 amended: the load commits once, after the last chunk; while it runs, and
\* when it fails in chunk k, nothing has been committed, so the chunks before
\* k are lost with chunk k.
C9_SingleCommit ==
  builds = 1 =>
     /\ pc \in {"loading", "failed"} => commits = 0 /\ StoreRows = <<>>
     /\ pc = "open" => commits = 1 /\ pending = <<>> /\ Len(StoreRows) = pos

\* C9 witness: the load failed in its third chunk, two chunks inserted before it
C9_Witness ==
  /\ pc = "failed" /\ err \in {"ValueError", "IntegrityError"}
  /\ chunksDone = 2 /\ pos = 2 /\ Len(pending) >= 2 /\ StoreRows = <<>>

\* ---- the taxonomy store's schema extension (specification SpecSchema) ----
ExtensionTables == {t \in AllTables \ BaseTables : db[t].exists}

\* C1 as stated: when expand_taxonomy_db has run twice on the store, whatever
\* was inserted in between, both calls succeeded and the store holds exactly
\* the five extension tables, all empty but version, whose one row carries
\* the refseq version, taxonomy version and comment of the last call.
C1_Original ==
  (lastOp = "expand_taxonomy_db" /\ Len(expandResults) = 2) =>
     /\ expandResults = <<"", "">>
     /\ ExtensionTables = DroppedTables
     /\ \A t \in DroppedTables \ {"version"} : db[t].rows = <<>>
     /\ Len(db["version"].rows) = 1
     /\ SubSeq(db["version"].rows[1], 2, 4) = lastArgs

\* ---- the header resolver (specification SpecMappings) ----
\* C4 as stated: a record whose gi is not in the store and whose fallback
\* finds no taxid (no accession in the header, no response, or a response
\* without a taxid) never ends the scan.
C4_Original ==
  ~(rstate = "aborted" /\ rwhere \in {"accno", "efetch"})

\* C6: the pairs the resolver yielded and create_header_taxid_file wrote, one
\* tab-separated line each, are what parse_refseqs reads back, values and
\* order the same.
C6_RoundTrip ==
  parsed.done => parsed.err = "" /\ parsed.pairs = yielded

\* C6 witness: three pairs read back, one from the store with a description cut off
\* the header, one with a taxid from the network
C6_Witness ==
  /\ parsed.done /\ Len(yielded) = 3
  /\ yielded[1] = <<SplitWS(RawMapped)[1], 12>>
  /\ yielded[2][2] = 40
  /\ Len(outfile) > 30

\* ---- parse_gff (specification SpecAnnotations) ----
Chomp(line) ==
  IF line # <<>> /\ line[Len(line)] = "\n" THEN SubSeq(line, 1, Len(line) - 1) ELSE line
LaterLines == Tail(ReadLines(gff))
IsHashLine(line) == line # <<>> /\ line[1] = "#"
IsNineFields(line) == Len(SplitOn(line, <<"\t">>)) = 9
RecordOf(line) ==
  <<SplitOn(line, <<"\t">>)[1], SplitOn(line, <<"\t">>)[4], SplitOn(line, <<"\t">>)[5],
    SplitOn(line, <<"\t">>)[9]>>
RecordLines == SelectSeq(LaterLines, LAMBDA l : ~IsHashLine(l) /\ IsNineFields(l))

\* C7 as stated: in a file that starts with the version line, no later line
\* beginning with "#" yields a record, a lone "###" line is not reported as an
\* error, and every other line without nine tab-separated fields is reported
\* and skipped while every record line is still yielded.
C7_Original ==
  gstate = "done" =>
     /\ records = [i \in 1..Len(RecordLines) |-> RecordOf(RecordLines[i])]
     /\ \A i \in 1..Len(errors) : Chomp(errors[i]) # GffSentinelLine
     /\ \A i \in 1..Len(LaterLines) :
          (~IsHashLine(LaterLines[i]) /\ ~IsNineFields(LaterLines[i]))
             => LaterLines[i] \in Range(errors)

\* ---- find_refseq_header (specification SpecFind) ----
\* headers of the refseqs table that the query's LIKE pattern matches
MatchingHeaders ==
  {h \in {db["refseqs"].rows[i][1] : i \in 1..Len(db["refseqs"].rows)} :
     Like(h, <<"%">> \o findArg \o <<"%">>)}

\* C10 as stated (a header "contains" the substring when the partial-match
\* query matches it): the call returns a header only when exactly one stored
\* header matches, and raises when none or more than one does.
C10_Original ==
  lastOp = "find_refseq_header" =>
     (lastErr = "" <=> Cardinality(MatchingHeaders) = 1)

\* C10 amended: a call that runs the query returns a stored header whenever at
\* least one header of refseqs matches, one of the matching headers when there
\* are several, and raises only when none matches; a call answered from the
\* lru_cache returns the header cached for that substring.
C10_AnyMatch ==
  lastOp = "find_refseq_header" =>
     IF findRet.hit
     THEN /\ lastErr = ""
          /\ cache # <<>>
          /\ cache[Len(cache)] = [key |-> findArg, value |-> findRet.header]
     ELSE /\ lastErr = "" <=> MatchingHeaders # {}
          /\ lastErr = "" => findRet.header \in MatchingHeaders

\* C10 witness: the query ran with two matching headers and returned one
C10_Witness ==
  /\ lastOp = "find_refseq_header" /\ ~findRet.hit /\ lastErr = ""
  /\ Cardinality(MatchingHeaders) = 2
  /\ findArg = <<"a">>
====
